---------------------------- MODULE Spec2Model ----------------------------
(***************************************************************************)
(* Model of src/02-nodejs/todoServer.file.js: an express server keeping a  *)
(* todo list in one JSON file.  Every handler reads the whole file, works  *)
(* on the parsed list and (for POST, PUT, DELETE) writes the whole file    *)
(* back; the file operations are asynchronous, so the handler of one       *)
(* request is a chain of callbacks that can interleave with the chains of  *)
(* other requests.                                                         *)
(*                                                                         *)
(* JSON values are written as follows: a JSON object is a function from a  *)
(* set of keys to values (the empty object is <<>>), a JSON array is a     *)
(* sequence, the number held by an "id" key is an integer, and every other *)
(* scalar is held as its JSON text ("\"A\"", "\"\"", "null", "0",         *)
(* "false"), so that a string and a literal never coincide.                *)
(***************************************************************************)
EXTENDS Integers, Sequences, FiniteSets, TLC

(* ------------------------------ bounds -------------------------------- *)

\* Requests that can be in flight at once.
NReq == 2
\* Times a request is received while another is in flight.
MaxOverlaps == 1
\* The stores generateNewId is tried on: ids up to MaxGenId, MaxGenLen records.
MaxGenId == 3
MaxGenLen == 3
\* Successful creations after which no further POST /todos is received.
MaxCreates == 2

(* --------------------------- JSON and numbers ------------------------- *)

\* A JavaScript number as far as the handlers see one: an integer or NaN.
NaN == [nan |-> TRUE, val |-> 0]
Num(n) == [nan |-> FALSE, val |-> n]

\* The largest id the store can hold: ids are handed out from 1 upwards, one
\* per creation.
MaxId == MaxCreates

\* The path parameter left a string: as far as === goes it equals no id.
ToNumberForgotten(s) == NaN

\* The coercion with a default, +req.params?.id || 1: a string that spells no
\* number (or spells 0) gives 1.
ToNumberOrOne(s) ==
  IF \E n \in 1..(MaxId + 1) : ToString(n) = s
  THEN Num(CHOOSE n \in 1..(MaxId + 1) : ToString(n) = s)
  ELSE Num(1)

\* Unary plus on the path parameter, +req.params?.id: the number a decimal
\* string spells, NaN for a string that spells none.
ToNumber(s) ==
  IF \E n \in 0..(MaxId + 1) : ToString(n) = s
  THEN Num(CHOOSE n \in 0..(MaxId + 1) : ToString(n) = s)
  ELSE NaN

\* x.id === id, for a record x of the list and a number id: NaN equals nothing.
StrictEq(x, id) == "id" \in DOMAIN x /\ ~id.nan /\ x["id"] = id.val

\* The object spread { ...a, ...b }: b's keys win.
Spread(a, b) ==
  [k \in (DOMAIN a) \cup (DOMAIN b) |-> IF k \in DOMAIN b THEN b[k] ELSE a[k]]

\* The JSON texts that JavaScript treats as false in a condition.
FalsyTexts == {"\"\"", "null", "0", "false"}

\* A check for a missing title only: newItem.title === undefined.
NoTitleUndefinedOnly(newItem) == "title" \notin DOMAIN newItem

\* !newItem.title : the title is absent (undefined) or falsy.
NoTitle(newItem) ==
  \/ "title" \notin DOMAIN newItem
  \/ newItem["title"] \in FalsyTexts

(* ------------------------------ the file ------------------------------ *)

\* What FILEPATH holds: nothing (no such file), or a text: the empty text, the
\* serialization of a list, or a text that is no JSON value (a partial write).
Absent == [tag |-> "absent", val |-> <<>>]
EmptyText == [tag |-> "empty", val |-> <<>>]
Malformed == [tag |-> "malformed", val |-> <<>>]

\* JSON.stringify(list).
Stringify(list) == [tag |-> "json", val |-> list]

\* JSON.parse(data) succeeds only on the text of a JSON value; the empty text
\* and a cut text raise SyntaxError.
ParseOk(data) == data.tag = "json"
Parse(data) == data.val

(* ---------------------------- generateNewId --------------------------- *)

RECURSIVE MaxIdFromFlipped(_, _, _)
\* The loop with its comparison the wrong way round: item.id < maxId.
MaxIdFromFlipped(list, i, maxId) ==
  IF i > Len(list) THEN maxId
  ELSE MaxIdFromFlipped(list, i + 1,
                        IF list[i]["id"] < maxId THEN list[i]["id"] ELSE maxId)

RECURSIVE MaxIdFrom(_, _, _)
\* The forEach loop of generateNewId from index i on, maxId being the running
\* maximum.
MaxIdFrom(list, i, maxId) ==
  IF i > Len(list) THEN maxId
  ELSE MaxIdFrom(list, i + 1,
                 IF list[i]["id"] > maxId THEN list[i]["id"] ELSE maxId)

\* A generateNewId that trusts the list to be sorted: the last id plus 1.
generateNewIdFromLast(list) ==
  IF list = <<>> THEN 1 ELSE list[Len(list)]["id"] + 1

\* A generateNewId whose loop assigns a shadowing local: maxId stays 0.
generateNewIdShadowed(list) == 0 + 1

generateNewId(list) == MaxIdFrom(list, 1, 0) + 1

\* list.findIndex((x) => x.id === id), 1-based; 0 stands for -1.
FindIndex(list, id) ==
  IF \E i \in 1..Len(list) : StrictEq(list[i], id)
  THEN CHOOSE i \in 1..Len(list) :
         /\ StrictEq(list[i], id)
         /\ \A j \in 1..(i - 1) : ~StrictEq(list[j], id)
  ELSE 0

\* list.splice(foundIndex): without a count, everything from foundIndex on goes.
SpliceRest(list, i) == SubSeq(list, 1, i - 1)

\* list.splice(foundIndex, 1).
Splice(list, i) == [j \in 1..(Len(list) - 1) |-> IF j < i THEN list[j] ELSE list[j + 1]]

(* ------------------------------- inputs ------------------------------- *)

\* Request bodies, as bodyParser.json() hands them to the handlers.
TitleA == [title |-> "\"A\""]
TitleBWithId == [title |-> "\"B\"", id |-> 1]
OnlyDescription == [description |-> "\"d\""]
EmptyTitle == [title |-> "\"\""]

PostBodies ==
  {<<>>, TitleA, TitleBWithId, OnlyDescription, EmptyTitle,
   [title |-> "null"], [title |-> "0"], [title |-> "false"]}

PutBodies == {TitleBWithId, OnlyDescription, EmptyTitle}

\* The :id segment of a path: the decimal ids, and a segment that is no number.
PathParams == {ToString(n) : n \in 1..MaxId} \cup {"abc"}

Methods == {"GET", "POST", "PUT", "DELETE", "OPTIONS"}
Paths == {"/todos", "/todos/:id", "/unknown"}

Request(method, path, param, body) ==
  [method |-> method, path |-> path, param |-> param, body |-> body]

NoRequest == Request("", "", "", <<>>)

(* ------------------------------ responses ----------------------------- *)

NoResp == [status |-> 0, kind |-> "none", list |-> <<>>, item |-> <<>>, text |-> ""]

\* res.status(status).send(list)
SendList(status, list) ==
  [status |-> status, kind |-> "list", list |-> list, item |-> <<>>, text |-> ""]

\* res.send(foundItem)
SendItem(item) ==
  [status |-> 200, kind |-> "item", list |-> <<>>, item |-> item, text |-> ""]

\* res.status(404).send({ error: text })
SendError(text) ==
  [status |-> 404, kind |-> "error", list |-> <<>>, item |-> <<>>, text |-> text]

\* The fallback answering like the handlers, with a JSON object { error: text }.
SendTextAsError(text) ==
  [status |-> 404, kind |-> "error", list |-> <<>>, item |-> <<>>, text |-> text]

\* res.status(404).send("Route not found")
SendText(text) ==
  [status |-> 404, kind |-> "text", list |-> <<>>, item |-> <<>>, text |-> text]

\* res.statusCode = status; res.end(): a response without a body, as cors()
\* ends a preflight request.
EndEmpty(status) ==
  [status |-> status, kind |-> "empty", list |-> <<>>, item |-> <<>>, text |-> ""]

(* ------------------------------- state -------------------------------- *)

VARIABLES
  up,       \* the node process is running
  fault,    \* the uncaught exception that ended the process, "" if none
  file,     \* what FILEPATH holds
  pc,       \* per request in flight: where its chain of callbacks stands
  req,      \* per request in flight: method, path, path parameter and body
  data,     \* per request in flight: the file content its readFile returned
  list,     \* per request in flight: the list its callbacks work on
  over,     \* per request in flight: another write landed since its writeFile
            \* opened the file
  out,      \* the event of the last step: a response sent, or a request cut
            \* short by the end of the process
  created,  \* history: the ids given by the creations answered 201, in order
  gone,     \* history: the ids deleted since the last creation answered 201
  last,     \* history: the id and body of the creation answered 201, if the
            \* request that ended last was one
  stored,   \* history: the list of the last write whose callback ran without
            \* err; before any, the list the file held at the start
  overlaps  \* history: requests received while another was in flight

vars ==
  <<up, fault, file, pc, req, data, list, over, out, created, gone, last, stored,
    overlaps>>

\* The requests in flight, in the order of their arrival, are the indices of
\* pc, req, data, list and over: the first Len(pc) of the slots.  pc values: "read" readFile pending; "open"
\* writeFile called, file not yet opened; "write" file opened (truncated), data
\* not yet written.
Slots == 1..NReq
Reqs == 1..Len(pc)

NoLast == [id |-> 0, body |-> <<>>]

\* An event: the request, the file content it read, the response (NoResp if
\* the process ended instead), and what last was before the event.
Event(request, d, response, before) ==
  [req |-> request, data |-> d, resp |-> response, prev |-> before]

NoOut == Event(NoRequest, Absent, NoResp, NoLast)

Init ==
  /\ up = TRUE
  /\ fault = ""
  /\ file \in {Absent, EmptyText, Stringify(<<>>)}
  /\ pc = <<>>
  /\ req = <<>>
  /\ data = <<>>
  /\ list = <<>>
  /\ over = <<>>
  /\ out = NoOut
  /\ created = <<>>
  /\ gone = {}
  /\ last = NoLast
  /\ stored = (IF ParseOk(file) THEN Parse(file) ELSE <<>>)
  /\ overlaps = 0

(* --------------------------- common steps ----------------------------- *)

\* express is ready for a request: the process runs, and the bounds on the
\* requests in flight leave room.
Listening ==
  /\ up
  /\ Len(pc) < NReq
  /\ Len(pc) > 0 => overlaps < MaxOverlaps

\* A request reaches its handler, which calls getListFromFile and returns; the
\* answer is left to the callback.
Accept(request) ==
  /\ Listening
  /\ pc' = Append(pc, "read")
  /\ req' = Append(req, request)
  /\ data' = Append(data, Absent)
  /\ list' = Append(list, <<>>)
  /\ over' = Append(over, FALSE)
  /\ overlaps' = IF Len(pc) > 0 THEN overlaps + 1 ELSE overlaps
  /\ out' = NoOut
  /\ UNCHANGED <<up, fault, file, created, gone, last, stored>>

\* The response to request is sent; d is the file content the request read and
\* id the id a creation gave, else 0.
Respond(request, d, response, id) ==
  /\ out' = Event(request, d, response, last)
  /\ last' = IF response.status = 201 THEN [id |-> id, body |-> request.body] ELSE NoLast

\* A handler that answers without touching the file.
AnswerAtOnce(request, response) ==
  /\ Listening
  /\ Respond(request, Absent, response, 0)
  /\ overlaps' = IF Len(pc) > 0 THEN overlaps + 1 ELSE overlaps
  /\ UNCHANGED <<up, fault, file, pc, req, data, list, over, created, gone, stored>>

\* s without its element i.
Remove(s, i) == SubSeq(s, 1, i - 1) \o SubSeq(s, i + 1, Len(s))

\* The handler of request r is over: its locals are discarded.
Release(r) ==
  /\ pc' = Remove(pc, r)
  /\ req' = Remove(req, r)
  /\ data' = Remove(data, r)
  /\ list' = Remove(list, r)

\* res.send(list) put after the call of storeListToFile instead of inside its
\* callback: the list is sent before the write.
StoreAndSend(r, l) ==
  /\ pc' = [pc EXCEPT ![r] = "open"]
  /\ data' = [data EXCEPT ![r] = file]
  /\ list' = [list EXCEPT ![r] = l]
  /\ out' = Event(req[r], file,
                  SendList(IF req[r].method = "POST" THEN 201 ELSE 200, l), last)
  /\ UNCHANGED <<req, over, last>>

\* The callback of request r keeps the list and calls storeListToFile.
storeListToFile(r, l) ==
  /\ pc' = [pc EXCEPT ![r] = "open"]
  /\ data' = [data EXCEPT ![r] = file]
  /\ list' = [list EXCEPT ![r] = l]
  /\ out' = NoOut
  /\ UNCHANGED <<req, over, last>>

\* The writes of other requests that the end of the process cuts short.
PendingWrites(r) == {q \in Reqs \ {r} : pc[q] \in {"open", "write"}}

\* What the file can hold once the process has ended, f being what the failing
\* operation left: a pending writeFile of another request may not have
\* started, may have truncated the file, written a part of its data, or all.
AfterExit(r, f) ==
  {f} \cup UNION {{EmptyText, Malformed, Stringify(list[q])} : q \in PendingWrites(r)}

\* "throw err" (or a throwing JSON.parse) inside a callback of fs: an uncaught
\* exception, which ends the process; no request in flight is answered, and
\* what the callbacks held in memory is lost.
Crash(r, e, f) ==
  /\ up' = FALSE
  /\ fault' = e
  /\ file' \in AfterExit(r, f)
  /\ pc' = <<>>
  /\ req' = <<>>
  /\ data' = <<>>
  /\ list' = <<>>
  /\ over' = <<>>
  /\ out' = Event(req[r], Absent, NoResp, last)
  /\ last' = NoLast
  /\ UNCHANGED <<created, gone, stored, overlaps>>

(* ---------------------------- getListFromFile ------------------------- *)

\* The errors with which the readFile callback of getListFromFile can throw:
\* the err of readFile (no such file, or an I/O error), or the SyntaxError of
\* JSON.parse on a text that is no JSON value.
ReadFaults(f) ==
  IF f.tag = "absent" THEN {"ENOENT"}
  ELSE {"EIO"} \cup (IF ParseOk(f) THEN {} ELSE {"SyntaxError"})

\* getListFromFile hands a list to getFromFileCb: readFile gave a string (with
\* the "utf8" encoding data is never anything else) and JSON.parse accepted it.
getListFromFile(r, method, path) ==
  /\ up
  /\ r \in Reqs
  /\ pc[r] = "read"
  /\ req[r].method = method
  /\ req[r].path = path
  /\ file.tag # "absent"
  /\ ParseOk(file)

ReadThrow(r) ==
  /\ up
  /\ r \in Reqs
  /\ pc[r] = "read"
  /\ \E e \in ReadFaults(file) : Crash(r, e, file)

\* readFile passes no err, and JSON.parse(data) throws: the text is no JSON
\* value.
ParseThrow(r) ==
  /\ up
  /\ r \in Reqs
  /\ pc[r] = "read"
  /\ file.tag # "absent"
  /\ ~ParseOk(file)
  /\ Crash(r, "SyntaxError", file)

(* ------------------------------ handlers ------------------------------ *)

\* app.get("/todos")
GetTodos == Accept(Request("GET", "/todos", "", <<>>))

\* A callback that stores the list it read before sending it, as the handlers
\* of POST, PUT and DELETE do.
GetTodosCbStoring(r) ==
  /\ getListFromFile(r, "GET", "/todos")
  /\ storeListToFile(r, Parse(file))
  /\ UNCHANGED <<up, fault, file, created, gone, stored, overlaps>>

GetTodosCb(r) ==
  /\ getListFromFile(r, "GET", "/todos")
  /\ Respond(req[r], file, SendList(200, Parse(file)), 0)
  /\ Release(r)
  /\ over' = Remove(over, r)
  /\ UNCHANGED <<up, fault, file, created, gone, stored, overlaps>>

\* app.get("/todos/:id")
GetTodoById ==
  \E param \in PathParams : Accept(Request("GET", "/todos/:id", param, <<>>))

GetTodoByIdCb(r) ==
  /\ getListFromFile(r, "GET", "/todos/:id")
  /\ LET id == ToNumber(req[r].param)
         l == Parse(file)
         foundIndex == FindIndex(l, id)
     IN  Respond(req[r], file,
                 IF foundIndex = 0 THEN SendError("item not Found")
                 ELSE SendItem(l[foundIndex]), 0)
  /\ Release(r)
  /\ over' = Remove(over, r)
  /\ UNCHANGED <<up, fault, file, created, gone, stored, overlaps>>

\* POST /todos requests on their way to a 201, counted against MaxCreates.
Creating == {q \in Reqs : req[q].method = "POST"}

\* app.post("/todos")
PostTodos ==
  \E newItem \in PostBodies :
    IF NoTitle(newItem)
    THEN AnswerAtOnce(Request("POST", "/todos", "", newItem),
                      SendError("title mandatory"))
    ELSE /\ Len(created) + Cardinality(Creating) < MaxCreates
         /\ Accept(Request("POST", "/todos", "", newItem))

\* The spread the wrong way round, { id: generateNewId(list), ...newItem }: an
\* id in the body wins.
NewItemBodyId(newItem, l) == Spread([id |-> generateNewId(l)], newItem)

\* The item POST /todos pushes: the body with id set to the generated id.
NewItem(newItem, l) == Spread(newItem, [id |-> generateNewId(l)])

PostTodosCb(r) ==
  /\ getListFromFile(r, "POST", "/todos")
  /\ storeListToFile(r, Append(Parse(file), NewItem(req[r].body, Parse(file))))
  /\ UNCHANGED <<up, fault, file, created, gone, stored, overlaps>>

\* app.put("/todos/:id")
PutTodo ==
  \E param \in PathParams, newItem \in PutBodies :
    Accept(Request("PUT", "/todos/:id", param, newItem))

\* An update that lets the body's id through: { id, ...currentItem, ...newItem }.
UpdatedItemBodyId(currentItem, newItem, id) ==
  Spread(Spread([id |-> id.val], currentItem), newItem)

\* An update that replaces the record by the body: { ...newItem, id }.
UpdatedItemReplaced(currentItem, newItem, id) == Spread(newItem, [id |-> id.val])

\* { ...currentItem, ...newItem, id }
UpdatedItem(currentItem, newItem, id) ==
  Spread(Spread(currentItem, newItem), [id |-> id.val])

PutTodoCb(r) ==
  /\ getListFromFile(r, "PUT", "/todos/:id")
  /\ LET id == ToNumber(req[r].param)
         l == Parse(file)
         foundIndex == FindIndex(l, id)
     IN  IF foundIndex = 0
         THEN /\ Respond(req[r], file, SendError("item not Found"), 0)
              /\ Release(r)
              /\ over' = Remove(over, r)
         ELSE storeListToFile(r, [l EXCEPT ![foundIndex] =
                          UpdatedItem(l[foundIndex], req[r].body, id)])
  /\ UNCHANGED <<up, fault, file, created, gone, stored, overlaps>>

\* app.delete("/todos/:id")
DeleteTodo ==
  \E param \in PathParams : Accept(Request("DELETE", "/todos/:id", param, <<>>))

DeleteTodoCb(r) ==
  /\ getListFromFile(r, "DELETE", "/todos/:id")
  /\ LET id == ToNumber(req[r].param)
         l == Parse(file)
         foundIndex == FindIndex(l, id)
     IN  IF foundIndex = 0
         THEN /\ Respond(req[r], file, SendError("item not Found"), 0)
              /\ Release(r)
              /\ over' = Remove(over, r)
         ELSE storeListToFile(r, Splice(l, foundIndex))
  /\ UNCHANGED <<up, fault, file, created, gone, stored, overlaps>>

\* app.use(cors()): the middleware, registered before every route, ends a
\* request of method OPTIONS (a preflight request) itself, with 204 and no
\* body; every other request it passes on.
Preflight(method) == method = "OPTIONS"

Cors ==
  \E method \in Methods, path \in Paths :
    /\ Preflight(method)
    /\ \E param \in (IF path = "/todos/:id" THEN PathParams ELSE {""}) :
         AnswerAtOnce(Request(method, path, param, <<>>), EndEmpty(204))

\* The routes registered before app.all("*").
Routed(method, path) ==
  \/ method = "GET" /\ path \in {"/todos", "/todos/:id"}
  \/ method = "POST" /\ path = "/todos"
  \/ method \in {"PUT", "DELETE"} /\ path = "/todos/:id"

\* app.all("*")
Fallback ==
  \E method \in Methods, path \in Paths :
    /\ ~Preflight(method)
    /\ ~Routed(method, path)
    /\ \E param \in (IF path = "/todos/:id" THEN PathParams ELSE {""}) :
         AnswerAtOnce(Request(method, path, param, <<>>),
                      SendText("Route not found"))

(* ---------------------------- storeListToFile ------------------------- *)

\* fs.writeFile opens FILEPATH for writing, which truncates it; the data is
\* written afterwards.
WriteOpen(r) ==
  /\ up
  /\ r \in Reqs
  /\ pc[r] = "open"
  /\ file' = EmptyText
  /\ pc' = [pc EXCEPT ![r] = "write"]
  /\ over' = [over EXCEPT ![r] = FALSE]
  /\ out' = NoOut
  /\ UNCHANGED <<up, fault, req, data, list, created, gone, last, stored, overlaps>>

\* The list serialized as the request read it, the change left out.
WrittenAsRead(r) == {data[r]}

\* What the file holds once the data of request r is written from offset 0:
\* the data, unless the writeFile of another request wrote since this one
\* opened the file; then a longer text lies under the data and its tail
\* stays behind it, which is no JSON value.
Written(r) ==
  IF over[r] THEN {Stringify(list[r]), Malformed} ELSE {Stringify(list[r])}

\* 201 for the creation, 200 (the default of res.send) for the others.
StoredStatus(request) == IF request.method = "POST" THEN 201 ELSE 200

\* The id the list of request r gives its new item, 0 if r creates none.
StoredId(r) ==
  IF req[r].method = "POST" THEN list[r][Len(list[r])]["id"] ELSE 0

\* The writeFile callback without err: writeToFileCb(true), and the handler
\* sends the list.
WriteCallback(r) ==
  /\ up
  /\ r \in Reqs
  /\ pc[r] = "write"
  /\ file' \in Written(r)
  /\ over' = Remove([q \in Reqs |-> pc[q] = "write"], r)
  /\ Respond(req[r], data[r], SendList(StoredStatus(req[r]), list[r]), StoredId(r))
  /\ Release(r)
  /\ created' = IF req[r].method = "POST" THEN Append(created, StoredId(r)) ELSE created
  /\ gone' = CASE req[r].method = "POST" -> {}
               [] req[r].method = "DELETE" -> gone \cup {ToNumber(req[r].param).val}
               [] OTHER -> gone
  /\ stored' = list[r]
  /\ UNCHANGED <<up, fault, overlaps>>

\* What a failing writeFile leaves: the file as it was if the open failed, a
\* truncated or partly written file if the write failed.
WriteLeaves(r) == IF pc[r] = "open" THEN {file} ELSE {file, Malformed}

\* The writeFile callback with err: "throw err".
WriteThrow(r) ==
  /\ up
  /\ r \in Reqs
  /\ pc[r] \in {"open", "write"}
  /\ \E f \in WriteLeaves(r) : Crash(r, "EWRITE", f)

\* A start that initialises the store: the file is written anew with an empty
\* list when the module is loaded.
RestartFresh ==
  /\ ~up \/ Len(pc) = 0
  /\ up' = TRUE
  /\ fault' = ""
  /\ out' = NoOut
  /\ file' = Stringify(<<>>)
  /\ UNCHANGED <<pc, req, data, list, over, created, gone, last, stored, overlaps>>

\* The process is started again: after an uncaught exception ended it, or
\* after it was stopped with no request in flight.  The module is loaded anew
\* (app, the middleware, FILEPATH, the routes) and listens; nothing reads or
\* writes the file.
Restart ==
  /\ ~up \/ Len(pc) = 0
  /\ up' = TRUE
  /\ fault' = ""
  /\ out' = NoOut
  /\ UNCHANGED <<file, pc, req, data, list, over, created, gone, last, stored,
                 overlaps>>

(* --------------------------- specifications --------------------------- *)

Handle ==
  \/ Cors
  \/ GetTodos
  \/ GetTodoById
  \/ PostTodos
  \/ PutTodo
  \/ DeleteTodo
  \/ Fallback

Callback(r) ==
  \/ GetTodosCb(r)
  \/ GetTodoByIdCb(r)
  \/ PostTodosCb(r)
  \/ PutTodoCb(r)
  \/ DeleteTodoCb(r)
  \/ ReadThrow(r)
  \/ WriteOpen(r)
  \/ WriteCallback(r)
  \/ WriteThrow(r)

\* Requests arrive at any time: their callbacks interleave.
Next ==
  \/ Handle
  \/ \E r \in Slots : Callback(r)
  \/ Restart

Spec == Init /\ [][Next]_vars

\* No request is in flight.
Quiet == Len(pc) = 0

\* Requests handled one at a time: a request arrives only when no other is in
\* flight.
NextSeq ==
  \/ Quiet /\ Handle
  \/ \E r \in Slots : Callback(r)
  \/ Restart

SpecSeq == Init /\ [][NextSeq]_vars

\* Every readFile and every writeFile succeeds (their callbacks never get an
\* err), on a store that starts as the file of an empty list; requests arrive
\* at any time.
InitIoOk == Init /\ file = Stringify(<<>>)

CallbackIoOk(r) ==
  \/ GetTodosCb(r)
  \/ GetTodoByIdCb(r)
  \/ PostTodosCb(r)
  \/ PutTodoCb(r)
  \/ DeleteTodoCb(r)
  \/ ParseThrow(r)
  \/ WriteOpen(r)
  \/ WriteCallback(r)

NextIoOk ==
  \/ Handle
  \/ \E r \in Slots : CallbackIoOk(r)
  \/ Restart

SpecIoOk == InitIoOk /\ [][NextIoOk]_vars

\* generateNewId on arbitrary stores: the store starts as any list of at most
\* MaxGenLen records with ids in 1..MaxGenId, in any order, and creations run.
GenRecords == {[title |-> "\"A\"", id |-> n] : n \in 1..MaxGenId}
GenLists == UNION {[1..n -> GenRecords] : n \in 0..MaxGenLen}

InitGen ==
  /\ up = TRUE
  /\ fault = ""
  /\ file \in {Stringify(l) : l \in GenLists}
  /\ pc = <<>>
  /\ req = <<>>
  /\ data = <<>>
  /\ list = <<>>
  /\ over = <<>>
  /\ out = NoOut
  /\ created = <<>>
  /\ gone = {}
  /\ last = NoLast
  /\ stored = (IF ParseOk(file) THEN Parse(file) ELSE <<>>)
  /\ overlaps = 0

NextGen ==
  \/ Quiet /\ PostTodos
  \/ \E r \in Slots : PostTodosCb(r) \/ WriteOpen(r) \/ WriteCallback(r)

SpecGen == InitGen /\ [][NextGen]_vars

(* ------------------------------- claims ------------------------------- *)

\* The ids of the records of l, as a sequence and as a set.
Ids(l) == [i \in 1..Len(l) |-> l[i]["id"]]
IdSet(l) == {l[i]["id"] : i \in 1..Len(l)}

DistinctIds(l) == \A i, j \in 1..Len(l) : i # j => l[i]["id"] # l[j]["id"]

\* The greatest element of a non-empty set of integers.
SetMax(S) == CHOOSE m \in S : \A n \in S : n <= m

\* The event of the last step is a response to (method, path).
Answered(method, path) ==
  /\ out.req.method = method
  /\ out.req.path = path
  /\ out.resp.status # 0

\* The list the request of the last event loaded from the store.
Loaded == Parse(out.data)

\* C1: with requests handled one at a time, from a store of records with
\* pairwise distinct ids, every record of the persisted list has an id
\* different from the id of every other record of the list.
C1_UniqueIds == file.tag = "json" => DistinctIds(Parse(file))

\* C1 witness: after two creations and a deletion, an update has just been
\* answered 200 and the store holds a record.
C1_Witness ==
  /\ Answered("PUT", "/todos/:id")
  /\ out.resp.status = 200
  /\ Len(created) = 2
  /\ file.tag = "json"
  /\ Len(Parse(file)) = 1

\* C2: the ids given by the successful creations of a run, deletions in
\* between allowed, are pairwise distinct: an id once assigned is never
\* assigned again.
C2_CreatedIdsDistinct ==
  \A i, j \in 1..Len(created) : i # j => created[i] # created[j]

\* The permutations of 1..n.
Perms(n) == {f \in [1..n -> 1..n] : \A i, j \in 1..n : i # j => f[i] # f[j]}

\* C3: for every list of records with positive integer ids generateNewId
\* returns the greatest id plus 1, and 1 for the empty list, whatever the order
\* of the records (every reordering of a list of at most MaxGenLen records
\* gives the same id); a creation gives its record that id.
C3_GenerateNewId ==
  /\ file.tag = "json" =>
       LET l == Parse(file) IN
         /\ generateNewId(l) = IF l = <<>> THEN 1 ELSE SetMax(IdSet(l)) + 1
         /\ Len(l) <= MaxGenLen =>
              \A f \in Perms(Len(l)) :
                generateNewId([i \in 1..Len(l) |-> l[f[i]]]) = generateNewId(l)
  /\ (Answered("POST", "/todos") /\ out.resp.status = 201) =>
       out.resp.list[Len(out.resp.list)]["id"] =
         IF Loaded = <<>> THEN 1 ELSE SetMax(IdSet(Loaded)) + 1

\* C3 witness: a creation on a store whose greatest id is not held by the last
\* record has been answered 201.
C3_Witness ==
  /\ Answered("POST", "/todos")
  /\ out.resp.status = 201
  /\ Len(Loaded) = 2
  /\ Loaded[1]["id"] > Loaded[2]["id"]

\* The request body of the last event and the list of its response.
Body == out.req.body
Sent == out.resp.list

\* The id the path parameter of the last event spells, -1 if it spells none.
PathN ==
  IF \E n \in 1..(MaxId + 1) : out.req.param = ToString(n)
  THEN CHOOSE n \in 1..(MaxId + 1) : out.req.param = ToString(n)
  ELSE -1

\* l holds a record with id n.
HasId(l, n) == \E k \in 1..Len(l) : l[k]["id"] = n

\* The fields of item are those of body, with the values of body, but for id,
\* which is n.
FieldsPlusId(item, body, n) ==
  /\ DOMAIN item = (DOMAIN body) \cup {"id"}
  /\ \A k \in (DOMAIN body) \ {"id"} : item[k] = body[k]
  /\ item["id"] = n

\* A title that is missing or falsy: absent, "", null, 0 or false.
MissingOrFalsyTitle(body) ==
  \/ "title" \notin DOMAIN body
  \/ body["title"] = "\"\""
  \/ body["title"] = "null"
  \/ body["title"] = "0"
  \/ body["title"] = "false"

C5_RoundTrip ==
  (/\ Answered("GET", "/todos/:id")
   /\ out.prev.id # 0
   /\ PathN = out.prev.id) =>
    /\ out.resp.status = 200
    /\ out.resp.kind = "item"
    /\ FieldsPlusId(out.resp.item, out.prev.body, out.prev.id)

\* C5 witness: the fetch of the second record, right after its creation with
\* a body that carried another id, has been answered.
C5_Witness ==
  /\ Answered("GET", "/todos/:id")
  /\ out.prev.id = 2
  /\ "id" \in DOMAIN out.prev.body
  /\ out.req.param = "2"

\* C6: an update of an existing record never changes its id: after PUT
\* /todos/{id} with any body, also one carrying another id, the record at that
\* position has the path id, and the ids of the store are those from before.
C6_UpdateKeepsId ==
  (Answered("PUT", "/todos/:id") /\ out.resp.status = 200) =>
    /\ HasId(Loaded, PathN)
    /\ Len(Sent) = Len(Loaded)
    /\ \A k \in 1..Len(Loaded) :
         Loaded[k]["id"] = PathN => Sent[k]["id"] = PathN
    /\ Ids(Sent) = Ids(Loaded)
    /\ file.tag = "json"
    /\ Ids(Parse(file)) = Ids(Loaded)

\* C6 witness: an update of record 2 whose body carries id 1 has been answered
\* 200.
C6_Witness ==
  /\ Answered("PUT", "/todos/:id")
  /\ out.resp.status = 200
  /\ out.req.param = "2"
  /\ "id" \in DOMAIN Body
  /\ Body["id"] = 1

\* l without its element k.
Without(l, k) == [j \in 1..(Len(l) - 1) |-> IF j < k THEN l[j] ELSE l[j + 1]]

\* C7: deleting an existing id is answered 200 with the remaining list, the
\* other records unchanged and in their order, and a fetch of that id after it
\* is answered 404 until a later creation; deleting an id that is not in the
\* list is answered 404 {error: "item not Found"} and leaves the store as it
\* was.
C7_Delete ==
  /\ Answered("DELETE", "/todos/:id") =>
       IF HasId(Loaded, PathN)
       THEN /\ out.resp.status = 200
            /\ out.resp.kind = "list"
            /\ \E k \in 1..Len(Loaded) :
                 /\ Loaded[k]["id"] = PathN
                 /\ Sent = Without(Loaded, k)
            /\ file.tag = "json"
            /\ Parse(file) = Sent
       ELSE /\ out.resp = SendError("item not Found")
            /\ file = out.data
  /\ (Answered("GET", "/todos/:id") /\ PathN \in gone) =>
       out.resp = SendError("item not Found")

\* C7 witness: a fetch of a deleted id has been answered while the store still
\* holds another record.
C7_Witness ==
  /\ Answered("GET", "/todos/:id")
  /\ PathN \in gone
  /\ file.tag = "json"
  /\ Len(Parse(file)) = 1

\* A request in flight is a POST /todos whose title is missing or falsy.
UntitledInFlight ==
  \E r \in Reqs : req[r].method = "POST" /\ MissingOrFalsyTitle(req[r].body)

\* The step answers a POST /todos whose title is missing or falsy.
UntitledAnswered ==
  /\ out'.req.method = "POST"
  /\ out'.req.path = "/todos"
  /\ MissingOrFalsyTitle(out'.req.body)

\* C8: a create request whose title is missing or falsy (absent, "", null, 0,
\* false) is answered 404 {error: "title mandatory"} and leaves the persisted
\* store unchanged: the store is neither read nor written for it.
C8_UntitledRejected ==
  /\ [](~UntitledInFlight)
  /\ [][UntitledAnswered =>
          /\ out'.resp = SendError("title mandatory")
          /\ out'.data = Absent
          /\ file' = file
          /\ pc' = pc]_vars

\* C8 witness: a POST /todos with title 0 has been answered 404 while another
\* request was in flight.
C8_Witness ==
  /\ Answered("POST", "/todos")
  /\ Body = [title |-> "0"]
  /\ out.resp.status = 404
  /\ Len(pc) = 1

\* C9: when the store file does not exist or is empty the store loader returns
\* an empty list rather than failing, so that GET /todos is answered 200 with
\* [] (a failing disk, EIO, set aside).
C9_MissingStoreIsEmptyList ==
  (/\ out.req.method = "GET"
   /\ out.req.path = "/todos"
   /\ file.tag \in {"absent", "empty"}
   /\ fault # "EIO") =>
    out.resp = SendList(200, <<>>)

Mutating(method) == method \in {"POST", "PUT", "DELETE"}

\* The step sends a success response to a create, update or delete request.
SuccessSent ==
  /\ Mutating(out'.req.method)
  /\ out'.resp.status \in {200, 201}

\* l is the loaded list with the change of request applied, as far as its
\* length shows.
Applied(request, loaded, l) ==
  CASE request.method = "POST" ->
         Len(l) = Len(loaded) + 1 /\ SubSeq(l, 1, Len(loaded)) = loaded
    [] request.method = "PUT" -> Len(l) = Len(loaded) /\ l # <<>>
    [] request.method = "DELETE" -> Len(l) = Len(loaded) - 1
    [] OTHER -> FALSE

\* A request whose writeFile is under way has read the store and changed the
\* list it loaded.
WriteAfterRead ==
  \A r \in Reqs :
    pc[r] \in {"open", "write"} =>
      /\ data[r].tag = "json"
      /\ Applied(req[r], Parse(data[r]), list[r])

\* C10: for every create, update and delete request a success response (201
\* or 200) is sent only once the request's own write has completed; the write
\* starts only after the request's own read has completed and the change has
\* been applied to the loaded list; a request whose write fails gets no success
\* response.
C10_ReadChangeWriteRespond ==
  /\ [](WriteAfterRead)
  /\ [][/\ SuccessSent =>
             \E r \in Reqs :
               /\ pc[r] = "write"
               /\ req[r] = out'.req
               /\ list[r] = out'.resp.list
               /\ up'
               /\ file'.tag \in {"json", "malformed"}
               /\ file'.tag = "json" => Parse(file') = list[r]
        /\ \A r \in Reqs :
             (Len(pc') = Len(pc) /\ pc'[r] = "open" /\ pc[r] # "open") =>
               /\ pc[r] = "read"
               /\ ParseOk(file)
               /\ data'[r] = file
        /\ (up /\ ~up') => (out'.resp = NoResp /\ pc' = <<>>)]_vars

\* C10 witness: a creation has been answered 201 while another request was in
\* flight, the file holding the list sent.
C10_Witness ==
  /\ Answered("POST", "/todos")
  /\ out.resp.status = 201
  /\ Len(pc) = 1
  /\ file = Stringify(Sent)

\* The five routes of the service.
Supported(method, path) ==
  \/ method = "GET" /\ path = "/todos"
  \/ method = "GET" /\ path = "/todos/:id"
  \/ method = "POST" /\ path = "/todos"
  \/ method = "PUT" /\ path = "/todos/:id"
  \/ method = "DELETE" /\ path = "/todos/:id"

\* The step answers, or cuts short, a request outside the five routes.
UnsupportedEnded ==
  /\ out'.req # NoRequest
  /\ ~Supported(out'.req.method, out'.req.path)

\* The step sends 404 "Route not found" as plain text and touches neither the
\* store nor a request in flight.
RouteNotFound ==
  /\ out'.resp.status = 404
  /\ out'.resp.kind = "text"
  /\ out'.resp.text = "Route not found"
  /\ file' = file
  /\ pc' = pc
  /\ data' = data

\* No request outside the five routes is ever in flight: none reads the store.
OnlySupportedInFlight ==
  \A r \in Reqs : Supported(req[r].method, req[r].path)

IndexOf(l, n) ==
  IF HasId(l, n) THEN CHOOSE k \in 1..Len(l) : l[k]["id"] = n ELSE 0

\* The id a path parameter spells, -1 if it spells none.
IdOf(param) ==
  IF \E n \in 1..(MaxId + 1) : param = ToString(n)
  THEN CHOOSE n \in 1..(MaxId + 1) : param = ToString(n)
  ELSE -1

\* a with the fields of b laid over it.
Overlay(a, b) ==
  [k \in (DOMAIN a) \cup (DOMAIN b) |-> IF k \in DOMAIN b THEN b[k] ELSE a[k]]

\* The response the service owes to a request of one of the five routes when
\* the store holds the list l: a function of the request and of l alone.
Outcome(request, l) ==
  LET n == IdOf(request.param)
      k == IndexOf(l, n)
      next == IF l = <<>> THEN 1 ELSE SetMax(IdSet(l)) + 1
      notFound == [status |-> 404, kind |-> "error", list |-> <<>>, item |-> <<>>,
                   text |-> "item not Found"]
      listed(status, m) ==
        [status |-> status, kind |-> "list", list |-> m, item |-> <<>>, text |-> ""]
  IN  CASE request.method = "GET" /\ request.path = "/todos" -> listed(200, l)
        [] request.method = "GET" /\ request.path = "/todos/:id" ->
             IF k = 0 THEN notFound
             ELSE [status |-> 200, kind |-> "item", list |-> <<>>, item |-> l[k],
                   text |-> ""]
        [] request.method = "POST" ->
             listed(201, Append(l, Overlay(request.body, [id |-> next])))
        [] request.method = "PUT" ->
             IF k = 0 THEN notFound
             ELSE listed(200, [l EXCEPT ![k] =
                                 Overlay(Overlay(l[k], request.body), [id |-> n])])
        [] request.method = "DELETE" ->
             IF k = 0 THEN notFound ELSE listed(200, Without(l, k))

\* The step starts the process again: before and after it no request is in
\* flight, and it sends nothing.
Restarted ==
  /\ Len(pc) = 0
  /\ Len(pc') = 0
  /\ up'
  /\ out' = NoOut

\* The last event is a response to a request that read the store.
AnsweredFromStore ==
  /\ out.resp.status # 0
  /\ out.data # Absent
  /\ Supported(out.req.method, out.req.path)

\* C12: with requests handled one at a time and the process started again at
\* any point between them (or after a fault ended it), a restart leaves the
\* store as it is and finds nothing in memory; the list GET /todos serves is
\* the list of the last successful write (the starting list before any); and
\* the response to every request that read the store is a function of the
\* request and the list it read alone, the file holding that function's list
\* after a create, update or delete.
C12_RestartChangesNothing ==
  /\ [](Len(pc) = 0 =>
          /\ req = <<>> /\ data = <<>> /\ list = <<>> /\ over = <<>>
          /\ ParseOk(file) => Parse(file) = stored)
  /\ [](Answered("GET", "/todos") => out.resp = SendList(200, stored))
  /\ [](AnsweredFromStore =>
          /\ ParseOk(out.data)
          /\ out.resp = Outcome(out.req, Parse(out.data))
          /\ out.resp.kind = "list" => file = Stringify(out.resp.list))
  /\ [][Restarted => file' = file]_vars

\* C12 witness: the process has just been started again, with no fault before,
\* on a store that two creations and an update wrote; the file holds the list
\* of the last successful write.
C12_Witness ==
  /\ Len(pc) = 0
  /\ up
  /\ out = NoOut
  /\ Len(stored) = 2
  /\ "description" \in DOMAIN stored[1]
  /\ file = Stringify(stored)

\* C13: a successful POST /todos responds 201 Created with the id of the
\* created item in JSON format: a body of the form {id: <new id>}, the new id
\* being the one generated from the list the request loaded.
C13_CreateRespondsId ==
  (Answered("POST", "/todos") /\ ~MissingOrFalsyTitle(Body)) =>
    /\ out.resp.status = 201
    /\ out.resp.kind = "item"
    /\ out.resp.item =
         [id |-> IF Loaded = <<>> THEN 1 ELSE SetMax(IdSet(Loaded)) + 1]

\* The record of the creation that was answered 201 just before the last
\* event.
Acknowledged == Overlay(out.prev.body, [id |-> out.prev.id])

\* The last event is a success response to a create, update or delete request
\* that follows the 201 of a creation whose record the request had not loaded:
\* it read the store before that creation wrote.
SecondOfTwo ==
  /\ Mutating(out.req.method)
  /\ out.resp.status \in {200, 201}
  /\ out.prev.id # 0
  /\ ParseOk(out.data)
  /\ \A k \in 1..Len(Loaded) : Loaded[k] # Acknowledged

\* C14: a lost update: whenever a create, update or delete request that loaded
\* the store before a concurrent creation wrote is answered with success after
\* that creation was, its response and the store hold the list it loaded with
\* its own change alone (the store, if the two writes overlapped, possibly no
\* JSON text at all): nothing of the creation acknowledged before is merged in.
C14_LostUpdate ==
  SecondOfTwo =>
    /\ out.resp = Outcome(out.req, Loaded)
    /\ file \in {Stringify(out.resp.list), Malformed}

\* C14 witness: two creations both loaded the empty list; {title: "A"} was
\* answered 201 with id 1, then the other was answered 201, and the store
\* holds the second record alone, the first being absent.
C14_Witness ==
  /\ SecondOfTwo
  /\ out.req.method = "POST"
  /\ out.prev = [id |-> 1, body |-> [title |-> "\"A\""]]
  /\ Loaded = <<>>
  /\ file = Stringify(Sent)
  /\ Len(Sent) = 1
  /\ Sent[1] # Acknowledged

\* The last event concerns a request on /todos/{id} whose id segment is no
\* number.
NonNumericId ==
  /\ out.req.path = "/todos/:id"
  /\ out.req.method \in {"GET", "PUT", "DELETE"}
  /\ out.req.param = "abc"

\* C15: GET, PUT and DELETE on /todos/{id} with a non-numeric id: the id is
\* coerced to NaN, which equals no record's id (nor itself), so whatever list
\* the store holds the request is answered 404 {error: "item not Found"} and
\* the store stays as the request read it; the coercion raises no error: if
\* the request goes unanswered, it is a fault of the file's read that ended
\* the process.
C15_NonNumericId ==
  /\ ToNumber("abc") = NaN
  /\ ~StrictEq([id |-> 0], NaN)
  /\ \A l \in {stored, IF ParseOk(file) THEN Parse(file) ELSE <<>>} :
       FindIndex(l, ToNumber("abc")) = 0
  /\ NonNumericId =>
       IF out.resp.status # 0
       THEN /\ out.resp.status = 404
            /\ out.resp.kind = "error"
            /\ out.resp.text = "item not Found"
            /\ file = out.data
            /\ ParseOk(file)
       ELSE fault \in {"ENOENT", "EIO", "SyntaxError"}

\* C15 witness: PUT /todos/abc has been answered 404 on a store of two
\* records.
C15_Witness ==
  /\ NonNumericId
  /\ out.req.method = "PUT"
  /\ out.resp.status = 404
  /\ ParseOk(file)
  /\ Len(Parse(file)) = 2

\* C16: an update of an existing id replaces that record alone, in place: the
\* new record has every field of the body with the body's value, every other
\* field of the old record with its old value, and the path id as id; the
\* other records, the length and the order of the list are as loaded; the
\* response is 200 with the whole updated list, which the store then holds.
\* An update of an absent id is answered 404 {error: "item not Found"} and
\* leaves the store as it was.
C16_UpdateFrame ==
  Answered("PUT", "/todos/:id") =>
    IF HasId(Loaded, PathN)
    THEN /\ out.resp.status = 200
         /\ out.resp.kind = "list"
         /\ Len(Sent) = Len(Loaded)
         /\ \A k \in 1..Len(Loaded) :
              IF Loaded[k]["id"] = PathN
              THEN /\ DOMAIN Sent[k] = (DOMAIN Loaded[k]) \cup (DOMAIN Body) \cup {"id"}
                   /\ Sent[k]["id"] = PathN
                   /\ \A f \in (DOMAIN Body) \ {"id"} : Sent[k][f] = Body[f]
                   /\ \A f \in (DOMAIN Loaded[k]) \ ((DOMAIN Body) \cup {"id"}) :
                        Sent[k][f] = Loaded[k][f]
              ELSE Sent[k] = Loaded[k]
         /\ file = Stringify(Sent)
    ELSE /\ out.resp.status = 404
         /\ out.resp.kind = "error"
         /\ out.resp.text = "item not Found"
         /\ file = out.data

\* C16 witness: an update whose body names only a description has been
\* answered 200 for the second of two records, which keeps its title.
C16_Witness ==
  /\ Answered("PUT", "/todos/:id")
  /\ out.resp.status = 200
  /\ Body = [description |-> "\"d\""]
  /\ Len(Loaded) = 2
  /\ PathN = Loaded[2]["id"]
  /\ "title" \in DOMAIN Sent[2]

\* C17: every record of the persisted list has a non-empty title, after any
\* sequence of create, update and delete requests, also updates whose body
\* sets the title to an empty or falsy value.
C17_TitlesNonEmpty ==
  ParseOk(file) =>
    \A k \in 1..Len(Parse(file)) : ~MissingOrFalsyTitle(Parse(file)[k])

\* The step sends the response to a GET /todos or GET /todos/{id}.
GetAnswered ==
  /\ out'.req.method = "GET"
  /\ out'.req.path \in {"/todos", "/todos/:id"}
  /\ out'.resp.status # 0

\* The step receives a GET /todos or GET /todos/{id}.
GetReceived ==
  /\ Len(pc') = Len(pc) + 1
  /\ req'[Len(pc')].method = "GET"

\* A GET in flight waits for its read and for nothing else: it has no write
\* under way.
GetOnlyReads ==
  \A r \in Reqs : req[r].method = "GET" => pc[r] = "read"

\* C18: GET /todos and GET /todos/{id} never write the store, in every
\* interleaving: neither the step that receives such a request nor the step
\* that answers it changes the file, and no write is ever under way for it;
\* GET /todos is answered 200 with exactly the list the file holds at the
\* moment of its read (the empty list included), GET /todos/{id} 200 with the
\* record of that id if that list holds one and 404 {error: "item not Found"}
\* otherwise.
C18_GetsNeverWrite ==
  /\ [](GetOnlyReads)
  /\ [][GetReceived => file' = file]_vars
  /\ [][GetAnswered =>
          /\ file' = file
          /\ ParseOk(file)
          /\ out'.data = file
          /\ LET l == Parse(file)
                 k == IndexOf(l, IdOf(out'.req.param))
             IN  IF out'.req.path = "/todos"
                 THEN /\ out'.resp.status = 200
                      /\ out'.resp.kind = "list"
                      /\ out'.resp.list = l
                 ELSE IF k # 0
                 THEN /\ out'.resp.status = 200
                      /\ out'.resp.kind = "item"
                      /\ out'.resp.item = l[k]
                 ELSE /\ out'.resp.status = 404
                      /\ out'.resp.kind = "error"
                      /\ out'.resp.text = "item not Found"]_vars

\* C18 witness: GET /todos has been answered with the empty list while a
\* creation that read the same list was waiting to write; the file is still
\* the one both read.
C18_Witness ==
  /\ Answered("GET", "/todos")
  /\ out.resp = SendList(200, <<>>)
  /\ Len(pc) = 1
  /\ req[1].method = "POST"
  /\ pc[1] = "open"
  /\ file = Stringify(<<>>)

\* The last event is a request that ended without any response: the process
\* ended under it.
Unanswered ==
  /\ out.req # NoRequest
  /\ out.resp = NoResp

\* C19: when every file read and every file write succeeds, every request
\* receives its response under any interleaving with other requests: none
\* ends without one; a request goes unanswered only when a read or a write
\* has failed.
C19_AnsweredUnlessIoFails ==
  ~Unanswered

\* C20: id uniqueness inside the store survives the unlocked race: in every
\* interleaving of concurrent create, update and delete requests, whenever the
\* file holds a list its records have pairwise distinct ids, and so has every
\* list a request is about to write and every list sent in a response, even
\* though two concurrent creations can each be answered with a list in which a
\* different new record carries the same generated id.
C20_StoreIdsDistinctInRace ==
  /\ ParseOk(file) => DistinctIds(Parse(file))
  /\ \A r \in Reqs : pc[r] \in {"open", "write"} => DistinctIds(list[r])
  /\ out.resp.kind = "list" => DistinctIds(out.resp.list)

\* C20 witness: two concurrent creations with different bodies have both been
\* answered 201 with id 1 for their record, and the store holds one list of
\* distinct ids: the record of the second.
C20_Witness ==
  /\ Answered("POST", "/todos")
  /\ created = <<1, 1>>
  /\ out.prev.id = 1
  /\ out.prev.body # Body
  /\ Sent[Len(Sent)]["id"] = 1
  /\ ParseOk(file)
  /\ Len(Parse(file)) = 1
  /\ Parse(file)[1] = Sent[Len(Sent)]

=============================================================================
